---- MODULE Spec2Model ----
(***************************************************************************)
(* Layout engine of vgc's CentralWidget: a viewer plus three satellite     *)
(* regions (toolbar, panel, console), each separated from the viewer by a  *)
(* Splitter.  Modelled from src/libs/vgc/widgets/centralwidget.cpp.        *)
(*                                                                         *)
(* A rectangle is the argument list of a QWidget::setGeometry(x, y, w, h)  *)
(* call, kept as the record [x, y, w, h]: the model records what the code  *)
(* assigns, before anything the toolkit may do with it.                    *)
(***************************************************************************)
EXTENDS Integers, FiniteSets, TLC

(***************************************************************************)
(* Bounds of the explored inputs.                                          *)
(***************************************************************************)
MaxDragSteps == 1
\* The number of events a behaviour delivers to the widgets.
MaxEvents == 5
\* The number of Splitter setter calls a behaviour makes from outside.
MaxCalls == 2

\* Container sizes delivered by resizeEvent, and the size the window has when
\* it is constructed.
Widths == {0, 500, 1000}
Heights == {0, 400, 800}
InitialSizes == {[w |-> 1000, h |-> 800]}

\* Pointer coordinates along the drag axis: where a press lands, and where a
\* move may take the pointer (the press coordinate plus a multiple of 300).
PressCoords == {3}
MoveCoords == {p + 300 * k : p \in PressCoords, k \in (-MaxDragSteps)..MaxDragSteps}

\* viewer_->minimumSizeHint(): reported by the content, non-negative.
ViewerMinSizes == {[w |-> 0, h |-> 0], [w |-> 100, h |-> 100]}

\* Arguments of the Splitter setters called from outside the layout engine.
LengthArgs == {-50, 300, 2000}
RangeArgs == {<<-50, 300>>, <<300, 2000>>, <<2000, 300>>}
WidthArgs == {-1, 3, 12}

Buttons == {"Left", "Right"}
SplitterIds == 0..2
Satellites == {"toolbar", "panel", "console"}

(***************************************************************************)
(* Program constants.                                                      *)
(***************************************************************************)
margin_ == 0
ToolbarLength == 68
PanelLength == 200
ConsoleLength == 200
ConsoleMinimumLength == 50
DefaultGrabWidth == 10
DefaultHighlightWidth == 4
\* Default of the constructor's maximumLength parameter ("unconstrained").
DefaultMaximumLength == 2147483647

VARIABLES
    width,        \* CentralWidget::width()
    height,       \* CentralWidget::height()
    visible,      \* isVisibleTo(this) of toolbar_, panel_, console_
    vMinSize,     \* viewer_->minimumSizeHint()
    splitters,    \* splitters_[0..2], each a Splitter's fields
    rects,        \* geometry of toolbar_, viewer_, console_, panel_
    clampVariant, \* which vgc::core::clamp the build has when max < min
    panelDrag,    \* history: progress of a press, move out, move back on s1
    events        \* history: the number of events delivered so far

vars == <<width, height, visible, vMinSize, splitters, rects, clampVariant, panelDrag,
          events>>

Rect(x, y, w, h) == [x |-> x, y |-> y, w |-> w, h |-> h]

(***************************************************************************)
(* vgc::core::clamp (vgc/core/algorithm.h, not among the sources).  For    *)
(* min <= max it is the usual clamp.  For max < min the two shapes the     *)
(* function can have are kept apart by variant: "std" is                   *)
(* (v < min) ? min : (max < v) ? max : v, "swap" clamps to [max, min].     *)
(***************************************************************************)
ClampVariants == {"std", "swap"}

clamp(variant, v, min, max) ==
    IF max < min /\ variant = "swap"
    THEN (IF v < max THEN max ELSE IF min < v THEN min ELSE v)
    ELSE (IF v < min THEN min ELSE IF max < v THEN max ELSE v)

(***************************************************************************)
(* Splitter                                                                *)
(***************************************************************************)
\* orientation(): Left and Right splitters are the Qt::Horizontal ones (they
\* resize horizontally and are drawn as vertical bars).
IsHorizontal(s) == s.direction \in {"Left", "Right"}

\* Splitter::updateGeometry_: the geometry is the grab area around the
\* centerline, or the empty rectangle when the splitter is not resizable.
updateGeometry_(s) ==
    IF s.isResizable
    THEN LET x == s.cx
             y == s.cy
             l == s.cl
             gw1 == s.grabWidth \div 2
         IN [s EXCEPT !.geom = IF IsHorizontal(s)
                                THEN Rect(x - gw1, y, s.grabWidth, l)
                                ELSE Rect(x, y - gw1, l, s.grabWidth)]
    ELSE [s EXCEPT !.geom = Rect(0, 0, 0, 0)]

\* Splitter::Splitter
NewSplitter(variant, direction, isResizable, length, minimumLength, maximumLength) ==
    updateGeometry_(
        [direction |-> direction,
         isResizable |-> isResizable,
         length |-> clamp(variant, length, minimumLength, maximumLength),
         minimumLength |-> minimumLength,
         maximumLength |-> maximumLength,
         cx |-> 0, cy |-> 0, cl |-> 0,
         grabWidth |-> DefaultGrabWidth,
         highlightWidth |-> DefaultHighlightWidth,
         isHovered |-> FALSE,
         isPressed |-> FALSE,
         lengthOnPress |-> 0,
         zOnPress |-> 0,
         shown |-> TRUE,
         geom |-> Rect(0, 0, 0, 0)])

\* Splitter::setResizable
setResizable(s, isResizable) ==
    IF s.isResizable # isResizable
    THEN updateGeometry_([s EXCEPT !.isResizable = isResizable])
    ELSE s

\* Mutant of setLength: the requested length is stored as it is.
setLengthUnclamped(variant, s, length) ==
    IF s.length # length
    THEN updateGeometry_([s EXCEPT !.length = length])
    ELSE s

\* Splitter::setLength
setLength(variant, s, length) ==
    LET l == clamp(variant, length, s.minimumLength, s.maximumLength)
    IN IF s.length # l
       THEN updateGeometry_([s EXCEPT !.length = l])
       ELSE s

\* Splitter::setMinimumLength
setMinimumLength(variant, s, min) ==
    setLength(variant, [s EXCEPT !.minimumLength = min], s.length)

\* Mutant of setMaximumLength: the length is set to the new maximum.
setMaximumLengthAsLength(variant, s, max) ==
    setLength(variant, [s EXCEPT !.maximumLength = max], max)

\* Splitter::setMaximumLength
setMaximumLength(variant, s, max) ==
    setLength(variant, [s EXCEPT !.maximumLength = max], s.length)

\* Splitter::setLengthRange
setLengthRange(variant, s, min, max) ==
    setMaximumLength(variant, setMinimumLength(variant, s, min), max)

\* Mutant of setGrabWidth: highlightWidth_ is left alone.
setGrabWidthOnly(s, w) ==
    [s EXCEPT !.grabWidth = IF w < 0 THEN 0 ELSE w]

\* Splitter::setGrabWidth
setGrabWidth(s, w) ==
    LET g == IF w < 0 THEN 0 ELSE w
    IN [s EXCEPT !.grabWidth = g,
                 !.highlightWidth = IF g < s.highlightWidth THEN g ELSE s.highlightWidth]

\* Mutant of setHighlightWidth: the highlight is capped at grabWidth_, which is
\* left alone.
setHighlightWidthCapped(s, w) ==
    LET hw == IF w < 0 THEN 0 ELSE w
    IN [s EXCEPT !.highlightWidth = IF s.grabWidth < hw THEN s.grabWidth ELSE hw]

\* Splitter::setHighlightWidth
setHighlightWidth(s, w) ==
    LET hw == IF w < 0 THEN 0 ELSE w
    IN [s EXCEPT !.highlightWidth = hw,
                 !.grabWidth = IF s.grabWidth < hw THEN hw ELSE s.grabWidth]

\* Splitter::setGeometryFromCenterline
setGeometryFromCenterline(s, x, y, l) ==
    updateGeometry_([s EXCEPT !.cx = x, !.cy = y, !.cl = l])

\* QWidget::show / QWidget::hide on a splitter: the geometry is kept.
show(s) == [s EXCEPT !.shown = TRUE]

\* Mutant of hide: the splitter stays shown.
hideForgotten(s) == s

hide(s) == [s EXCEPT !.shown = FALSE]

\* Mutant of mousePressEvent: the button is not tested.
mousePressEventAnyButton(s, button, z) ==
    [s EXCEPT !.isPressed = TRUE, !.lengthOnPress = s.length, !.zOnPress = z]

\* Splitter::mousePressEvent
mousePressEvent(s, button, z) ==
    IF button = "Left"
    THEN [s EXCEPT !.isPressed = TRUE, !.lengthOnPress = s.length, !.zOnPress = z]
    ELSE s

\* Mutant of mouseMoveLength: the offset is applied to the current length_
\* instead of lengthOnPress_.
mouseMoveLengthFromCurrent(variant, s, z) ==
    LET offset == z - s.zOnPress
        raw == IF s.direction \in {"Right", "Bottom"}
               THEN s.length + offset
               ELSE s.length - offset
    IN [s EXCEPT !.length = clamp(variant, raw, s.minimumLength, s.maximumLength)]

\* Mutant of mouseMoveLength: the offset is added whatever the direction.
mouseMoveLengthSameSign(variant, s, z) ==
    LET offset == z - s.zOnPress
        raw == s.lengthOnPress + offset
    IN [s EXCEPT !.length = clamp(variant, raw, s.minimumLength, s.maximumLength)]

\* Splitter::mouseMoveEvent, up to the call of parent_->updateGeometries_():
\* length_ is assigned directly, not through setLength.
mouseMoveLength(variant, s, z) ==
    LET offset == z - s.zOnPress
        raw == IF s.direction \in {"Right", "Bottom"}
               THEN s.lengthOnPress + offset
               ELSE s.lengthOnPress - offset
    IN [s EXCEPT !.length = clamp(variant, raw, s.minimumLength, s.maximumLength)]

\* Mutant of mouseReleaseEvent: the release puts the length back to the one at
\* press time.
mouseReleaseEventRestoresLength(s, button) ==
    IF button = "Left"
    THEN [s EXCEPT !.isPressed = FALSE, !.length = s.lengthOnPress]
    ELSE s

\* Splitter::mouseReleaseEvent
mouseReleaseEvent(s, button) ==
    IF button = "Left" THEN [s EXCEPT !.isPressed = FALSE] ELSE s

(***************************************************************************)
(* CentralWidget                                                           *)
(***************************************************************************)
\* The number of times updateGeometries_ runs the three setMaximumLength calls.
MaximumLengthPasses == 2

\* CentralWidget::minimumSizeHint
minimumSizeHint(sp, vis, vMin) ==
    [w |-> 2 * margin_ + vMin.w
           + (IF vis.toolbar THEN margin_ + sp[0].minimumLength ELSE 0)
           + (IF vis.panel THEN margin_ + sp[1].minimumLength ELSE 0),
     h |-> 2 * margin_ + vMin.h
           + (IF vis.console THEN margin_ + sp[2].minimumLength ELSE 0)]

\* The body of the loop "for (int i = 0; i < 2; ++i)" of updateGeometries_, run
\* n times: the three arguments are read from locals the loop does not update.
RECURSIVE SetMaximumLengths(_, _, _, _)
SetMaximumLengths(n, variant, sp, maxes) ==
    IF n = 0
    THEN sp
    ELSE SetMaximumLengths(n - 1, variant,
             [i \in SplitterIds |-> setMaximumLength(variant, sp[i], maxes[i])],
             maxes)

\* Mutant of RegionRects: the viewer and the console extend to x4, not x3.
RegionRectsToRightEdge(x1, x2, x3, x4, y1, y2, y3, M, m2) ==
    [toolbar |-> Rect(x1 + m2, y1 + m2, x2 - x1 - M, y3 - y1 - M),
     viewer  |-> Rect(x2 + m2, y1 + m2, x4 - x2 - M, y2 - y1 - M),
     console |-> Rect(x2 + m2, y2 + m2, x4 - x2 - M, y3 - y2 - M),
     panel   |-> Rect(x3 + m2, y1 + m2, x4 - x3 - M, y3 - y1 - M)]

\* Mutant of RegionRects: the console runs under the panel, to x4.
RegionRectsConsoleUnderPanel(x1, x2, x3, x4, y1, y2, y3, M, m2) ==
    [toolbar |-> Rect(x1 + m2, y1 + m2, x2 - x1 - M, y3 - y1 - M),
     viewer  |-> Rect(x2 + m2, y1 + m2, x3 - x2 - M, y2 - y1 - M),
     console |-> Rect(x2 + m2, y2 + m2, x4 - x2 - M, y3 - y2 - M),
     panel   |-> Rect(x3 + m2, y1 + m2, x4 - x3 - M, y3 - y1 - M)]

\* The four setGeometry calls that end updateGeometries_.
RegionRects(x1, x2, x3, x4, y1, y2, y3, M, m2) ==
    [toolbar |-> Rect(x1 + m2, y1 + m2, x2 - x1 - M, y3 - y1 - M),
     viewer  |-> Rect(x2 + m2, y1 + m2, x3 - x2 - M, y2 - y1 - M),
     console |-> Rect(x2 + m2, y2 + m2, x3 - x2 - M, y3 - y2 - M),
     panel   |-> Rect(x3 + m2, y1 + m2, x4 - x3 - M, y3 - y1 - M)]

\* CentralWidget::updateGeometries_: the splitters and the four region
\* rectangles it leaves behind.
updateGeometries_(variant, sp, w, h, vis, vMin) ==
    LET M == margin_
        m1 == M \div 2
        m2 == M - m1
        x1 == m1
        x4 == w - m2
        y1 == m1
        y3 == h - m2
        \* Splitter between toolbar and viewer/console
        x2 == IF vis.toolbar THEN x1 + M + sp[0].length ELSE x1
        s0 == IF vis.toolbar
              THEN show(setGeometryFromCenterline(sp[0], x2, y1 + m2, y3 - y1 - M))
              ELSE hide(sp[0])
        \* Splitter between viewer/console and panels
        x3 == IF vis.panel THEN x4 - (M + sp[1].length) ELSE x4
        s1 == IF vis.panel
              THEN show(setGeometryFromCenterline(sp[1], x3, y1 + m2, y3 - y1 - M))
              ELSE hide(sp[1])
        \* Splitter between viewer and console
        y2 == IF vis.console THEN y3 - (M + sp[2].length) ELSE y3
        s2 == IF vis.console
              THEN show(setGeometryFromCenterline(sp[2], x2 + m2, y2, x3 - x2 - M))
              ELSE hide(sp[2])
        placed == [i \in SplitterIds |-> IF i = 0 THEN s0 ELSE IF i = 1 THEN s1 ELSE s2]
        maxes == [i \in SplitterIds |->
                     IF i = 0 THEN x3 - x1 - 2 * M - vMin.w
                     ELSE IF i = 1 THEN x4 - x2 - 2 * M - vMin.w
                     ELSE y3 - y1 - 2 * M - vMin.h]
    IN [splitters |-> SetMaximumLengths(MaximumLengthPasses, variant, placed, maxes),
        rects |-> RegionRects(x1, x2, x3, x4, y1, y2, y3, M, m2)]

\* The three splitters as CentralWidget::CentralWidget creates them.
ConstructedSplitters(variant) ==
    [i \in SplitterIds |->
        IF i = 0 THEN NewSplitter(variant, "Right", FALSE, ToolbarLength, ToolbarLength,
                                  DefaultMaximumLength)
        ELSE IF i = 1 THEN NewSplitter(variant, "Left", TRUE, PanelLength, PanelLength,
                                       DefaultMaximumLength)
        ELSE NewSplitter(variant, "Top", TRUE, ConsoleLength, ConsoleMinimumLength,
                         DefaultMaximumLength)]

AllVisible == [toolbar |-> TRUE, panel |-> TRUE, console |-> TRUE]

\* State after CentralWidget::CentralWidget, which ends with updateGeometries_().
Init ==
    /\ \E size \in InitialSizes : width = size.w /\ height = size.h
    /\ vMinSize \in ViewerMinSizes
    /\ clampVariant \in ClampVariants
    /\ visible = AllVisible
    /\ LET r == updateGeometries_(clampVariant, ConstructedSplitters(clampVariant),
                                  width, height, visible, vMinSize)
       IN /\ splitters = r.splitters
          /\ rects = r.rects
    /\ panelDrag = "idle"
    /\ events = 0

\* One more event is delivered, within the explored number of events.
Delivered ==
    /\ events < MaxEvents
    /\ events' = events + 1

\* A call of updateGeometries_ on splitters sp with the primed size and visibility.
Relayout(sp) ==
    LET r == updateGeometries_(clampVariant, sp, width', height', visible', vMinSize)
    IN /\ splitters' = r.splitters
       /\ rects' = r.rects

\* CentralWidget::resizeEvent
ResizeEvent(w, h) ==
    /\ Delivered
    /\ width' = w
    /\ height' = h
    /\ UNCHANGED <<visible, vMinSize, clampVariant>>
    /\ Relayout(splitters)
    /\ panelDrag' = "idle"

\* The slot updateGeometries_() called with nothing changed.
UpdateGeometries ==
    /\ Delivered
    /\ UNCHANGED <<width, height, visible, vMinSize, clampVariant>>
    /\ Relayout(splitters)
    /\ panelDrag' = "idle"

\* A ToggleViewAction of the panel or the console flips the widget's visibility
\* and its toggled(bool) signal runs updateGeometries_().
ToggleView(r) ==
    /\ Delivered
    /\ visible' = [visible EXCEPT ![r] = ~visible[r]]
    /\ UNCHANGED <<width, height, vMinSize, clampVariant>>
    /\ Relayout(splitters)
    /\ panelDrag' = "idle"

\* The toolbar has no ToggleViewAction in the constructor: its visibility setter
\* is the one the specification gives every region (it triggers a recompute).
ToggleToolbar ==
    /\ Delivered
    /\ visible' = [visible EXCEPT !.toolbar = ~visible.toolbar]
    /\ UNCHANGED <<width, height, vMinSize, clampVariant>>
    /\ Relayout(splitters)
    /\ panelDrag' = "idle"

(***************************************************************************)
(* Pointer events, as the toolkit delivers them                            *)
(***************************************************************************)
Min2(a, b) == IF a < b THEN a ELSE b
Max2(a, b) == IF a < b THEN b ELSE a

\* Rectangles a and b intersect in a rectangle of positive area.
Overlap(a, b) ==
    /\ Max2(a.x, b.x) < Min2(a.x + a.w, b.x + b.w)
    /\ Max2(a.y, b.y) < Min2(a.y + a.h, b.y + b.h)

\* A child widget receives pointer events when it is shown and part of its
\* geometry lies inside the parent.
Hittable(s) == s.shown /\ Overlap(s.geom, Rect(0, 0, width, height))

Frame == UNCHANGED <<width, height, visible, vMinSize, clampVariant, rects>>

\* Splitter::event, QEvent::HoverEnter
HoverEnter(i) ==
    /\ Delivered
    /\ Hittable(splitters[i])
    /\ \A j \in SplitterIds : ~splitters[j].isHovered
    /\ splitters' = [splitters EXCEPT ![i].isHovered = TRUE]
    /\ panelDrag' = "idle"
    /\ Frame

\* Splitter::event, QEvent::HoverLeave
HoverLeave(i) ==
    /\ Delivered
    /\ splitters[i].isHovered
    /\ splitters' = [splitters EXCEPT ![i].isHovered = FALSE]
    /\ panelDrag' = "idle"
    /\ Frame

\* Splitter::mousePressEvent.  The pressed widget grabs the pointer, so a
\* primary press arrives only while no splitter holds it.
MousePress(i, button, z) ==
    /\ Delivered
    /\ Hittable(splitters[i])
    /\ button = "Left" => \A j \in SplitterIds : ~splitters[j].isPressed
    /\ splitters' = [splitters EXCEPT ![i] = mousePressEvent(@, button, z)]
    /\ panelDrag' = IF i = 1 /\ button = "Left" THEN "pressed" ELSE "idle"
    /\ Frame

\* Whether the move of splitter s to coordinate z set its length to
\* lengthOnPress -+ offset itself, the handler and the recompute after it
\* clamping nothing; after is the splitter once the handler has returned.
MoveUnclamped(s, z, after) ==
    LET offset == z - s.zOnPress
        raw == IF s.direction \in {"Right", "Bottom"}
               THEN s.lengthOnPress + offset
               ELSE s.lengthOnPress - offset
    IN /\ s.minimumLength <= raw
       /\ raw <= s.maximumLength
       /\ after.length = raw

\* Splitter::mouseMoveEvent.  Mouse tracking is off, so a move arrives only
\* with a button held, and the primary button is held exactly while the
\* splitter is pressed.
MouseMove(i, buttons, z) ==
    /\ Delivered
    /\ splitters[i].shown
    /\ buttons # {}
    /\ ("Left" \in buttons) <=> splitters[i].isPressed
    /\ UNCHANGED <<width, height, visible, vMinSize, clampVariant>>
    /\ IF "Left" \in buttons
       THEN Relayout([splitters EXCEPT ![i] = mouseMoveLength(clampVariant, @, z)])
       ELSE UNCHANGED <<splitters, rects>>
    /\ panelDrag' =
          IF i = 1 /\ "Left" \in buttons
          THEN (IF /\ panelDrag = "pressed"
                   /\ z # splitters[1].zOnPress
                   /\ MoveUnclamped(splitters[1], z, splitters'[1])
                THEN "out"
                ELSE IF panelDrag = "out" /\ z = splitters[1].zOnPress
                THEN "back"
                ELSE "idle")
          ELSE "idle"

\* Splitter::mouseReleaseEvent
MouseRelease(i, button) ==
    /\ Delivered
    /\ splitters[i].shown
    /\ button = "Left" => splitters[i].isPressed
    /\ splitters' = [splitters EXCEPT ![i] = mouseReleaseEvent(@, button)]
    /\ panelDrag' = "idle"
    /\ Frame

\* The events of the running application.
Next ==
    \/ \E w \in Widths, h \in Heights : ResizeEvent(w, h)
    \/ UpdateGeometries
    \/ \E r \in {"panel", "console"} : ToggleView(r)
    \/ ToggleToolbar
    \/ \E i \in SplitterIds : HoverEnter(i)
    \/ \E i \in SplitterIds : HoverLeave(i)
    \/ \E i \in SplitterIds, b \in Buttons, z \in PressCoords : MousePress(i, b, z)
    \/ \E i \in SplitterIds, bs \in SUBSET Buttons, z \in MoveCoords : MouseMove(i, bs, z)
    \/ \E i \in SplitterIds, b \in Buttons : MouseRelease(i, b)

Spec == Init /\ [][Next]_vars

(***************************************************************************)
(* The Splitter setters, called on a splitter from outside the layout      *)
(* engine.  None of them calls the parent's updateGeometries_().           *)
(***************************************************************************)
\* One more setter call is made, within the explored number of calls.
Called ==
    /\ events < MaxCalls
    /\ events' = events + 1

SetLength(i, v) ==
    /\ Called
    /\ splitters' = [splitters EXCEPT ![i] = setLength(clampVariant, @, v)]
    /\ panelDrag' = "idle"
    /\ Frame

SetMinimumLength(i, v) ==
    /\ Called
    /\ splitters' = [splitters EXCEPT ![i] = setMinimumLength(clampVariant, @, v)]
    /\ panelDrag' = "idle"
    /\ Frame

SetMaximumLength(i, v) ==
    /\ Called
    /\ splitters' = [splitters EXCEPT ![i] = setMaximumLength(clampVariant, @, v)]
    /\ panelDrag' = "idle"
    /\ Frame

SetLengthRange(i, lo, hi) ==
    /\ Called
    /\ splitters' = [splitters EXCEPT ![i] = setLengthRange(clampVariant, @, lo, hi)]
    /\ panelDrag' = "idle"
    /\ Frame

\* Calls of the length setters, and the layout recomputed between them.
NextApi ==
    \/ \E i \in SplitterIds, v \in LengthArgs : SetLength(i, v)
    \/ \E i \in SplitterIds, v \in LengthArgs : SetMinimumLength(i, v)
    \/ \E i \in SplitterIds, v \in LengthArgs : SetMaximumLength(i, v)
    \/ \E i \in SplitterIds, r \in RangeArgs : SetLengthRange(i, r[1], r[2])
    \/ UpdateGeometries
    \/ \E w \in Widths, h \in Heights : ResizeEvent(w, h)

SpecApi == Init /\ [][NextApi]_vars

\* The width setters leave the event count alone: every sequence of calls is
\* explored.
SetGrabWidth(i, w) ==
    /\ splitters' = [splitters EXCEPT ![i] = setGrabWidth(@, w)]
    /\ panelDrag' = "idle"
    /\ UNCHANGED events
    /\ Frame

SetHighlightWidth(i, w) ==
    /\ splitters' = [splitters EXCEPT ![i] = setHighlightWidth(@, w)]
    /\ panelDrag' = "idle"
    /\ UNCHANGED events
    /\ Frame

NextWidths ==
    \/ \E i \in SplitterIds, w \in WidthArgs : SetGrabWidth(i, w)
    \/ \E i \in SplitterIds, w \in WidthArgs : SetHighlightWidth(i, w)

SpecWidths == Init /\ [][NextWidths]_vars

\* Splitter::setResizable called on a splitter of the running application; like
\* the other setters it does not call the parent's updateGeometries_().
SetResizable(i, isResizable) ==
    /\ Delivered
    /\ splitters' = [splitters EXCEPT ![i] = setResizable(@, isResizable)]
    /\ panelDrag' = "idle"
    /\ Frame

\* Pointer presses, moves and releases, recomputes and resizes, with
\* setResizable called between them.
NextResizable ==
    \/ \E i \in SplitterIds, b \in BOOLEAN : SetResizable(i, b)
    \/ \E w \in Widths, h \in Heights : ResizeEvent(w, h)
    \/ UpdateGeometries
    \/ \E i \in SplitterIds, b \in Buttons, z \in PressCoords : MousePress(i, b, z)
    \/ \E i \in SplitterIds, bs \in SUBSET Buttons, z \in MoveCoords : MouseMove(i, bs, z)
    \/ \E i \in SplitterIds, b \in Buttons : MouseRelease(i, b)

SpecResizable == Init /\ [][NextResizable]_vars

(***************************************************************************)
(* Properties                                                              *)
(***************************************************************************)
Regions == {"toolbar", "viewer", "console", "panel"}

NonNegative(r) == r.w >= 0 /\ r.h >= 0
ZeroArea(r) == r.w = 0 \/ r.h = 0

\* The part of a splitter that the layout decides: its rectangle and lengths.
SplitterLayout(s) ==
    [geom |-> s.geom, length |-> s.length, maximumLength |-> s.maximumLength]

\* The container is at least as large as the window's minimum-size hint.
AtLeastMinimumSize ==
    LET hint == minimumSizeHint(splitters, visible, vMinSize)
    IN width >= hint.w /\ height >= hint.h

\* C1: in every state the application reaches by resizes, visibility toggles
\* and drags, a container at least as large as the minimum-size hint has four
\* region rectangles of non-negative width and height and a viewer rectangle at
\* least as large as the viewer's minimum size.
C1_MinimumSizeGivesValidRects ==
    AtLeastMinimumSize =>
        /\ \A r \in Regions : NonNegative(rects[r])
        /\ rects.viewer.w >= vMinSize.w
        /\ rects.viewer.h >= vMinSize.h

\* C2: every splitter keeps minimumLength <= length <= maximumLength in every
\* reachable state, recomputes on too small a container included.
C2_LengthWithinRange ==
    \A i \in SplitterIds :
        /\ splitters[i].minimumLength <= splitters[i].length
        /\ splitters[i].length <= splitters[i].maximumLength

\* C3: after any sequence of setGrabWidth and setHighlightWidth calls every
\* splitter has grabWidth >= highlightWidth >= 0.
C3_GrabCoversHighlight ==
    \A i \in SplitterIds :
        /\ splitters[i].grabWidth >= splitters[i].highlightWidth
        /\ splitters[i].highlightWidth >= 0

\* A width setter has lowered both widths of some splitter to zero and raised
\* both of another above the constructed grab width.
C3_Witness ==
    /\ \E i \in SplitterIds : splitters[i].grabWidth = 0 /\ splitters[i].highlightWidth = 0
    /\ \E i \in SplitterIds : splitters[i].grabWidth = 12 /\ splitters[i].highlightWidth = 12

\* C4: updateGeometries_() called again with nothing changed leaves the four
\* region rectangles and every splitter's rectangle, length and maximumLength
\* as the previous call left them.
C4_RecomputeIdempotent ==
    [][UpdateGeometries =>
          /\ rects' = rects
          /\ \A i \in SplitterIds : SplitterLayout(splitters'[i]) = SplitterLayout(splitters[i])
      ]_vars

\* The toggle of a satellite region's visibility.
Toggle(r) == IF r = "toolbar" THEN ToggleToolbar ELSE ToggleView(r)

\* C5: hiding a visible satellite region and showing it again, each toggle
\* followed by its recompute and nothing else changing, gives back the region
\* and splitter rectangles of before the hiding.  The step checked is the
\* hiding; the showing is the recompute applied to the state the hiding left.
C5_HideShowRestoresRects ==
    [][\A r \in Satellites :
          (visible[r] /\ Toggle(r)) =>
              LET back == updateGeometries_(clampVariant, splitters', width, height,
                                            visible, vMinSize)
              IN /\ back.rects = rects
                 /\ \A i \in SplitterIds : back.splitters[i].geom = splitters[i].geom
      ]_vars

\* C6: on the panel splitter, a primary press, a move by d that nothing clamps
\* and a move back to the press coordinate leave the length at its value at
\* press time.
C6_DragThereAndBack ==
    panelDrag = "back" => splitters[1].length = splitters[1].lengthOnPress

\* The panel splitter has been pressed, dragged to another length and back.
C6_Witness ==
    /\ panelDrag = "back"
    /\ splitters[1].isPressed
    /\ splitters[1].length = PanelLength

\* C7: no region rectangle ever has a negative width or height, whatever the
\* container size and visibility.
C7_NoNegativeExtent ==
    \A r \in Regions : NonNegative(rects[r])

Clamped(v, lo, hi) == IF v < lo THEN lo ELSE IF v > hi THEN hi ELSE v

\* C9: on a splitter with minimumLength <= maximumLength, setLength(v) stores v
\* clamped to [minimumLength, maximumLength], and changes nothing when that is
\* the current length.
C9_SetLengthClamps ==
    [][\A i \in SplitterIds, v \in LengthArgs :
          (SetLength(i, v) /\ splitters[i].minimumLength <= splitters[i].maximumLength) =>
              LET c == Clamped(v, splitters[i].minimumLength, splitters[i].maximumLength)
              IN /\ splitters'[i].length = c
                 /\ splitters[i].minimumLength <= splitters'[i].length
                 /\ splitters'[i].length <= splitters[i].maximumLength
                 /\ (c = splitters[i].length => splitters' = splitters)
      ]_vars

\* The console splitter holds a requested length that only setLength can have
\* stored: its bounds are the constructed minimum and a larger maximum.
C9_Witness ==
    /\ splitters[2].length = 300
    /\ splitters[2].minimumLength = ConsoleMinimumLength
    /\ splitters[2].maximumLength > 300

\* The scenario of C10: container 1000x800, toolbar hidden, panel and console
\* visible with splitter lengths 200.
PanelScenario ==
    /\ width = 1000
    /\ height = 800
    /\ margin_ = 0
    /\ ~visible.toolbar
    /\ visible.panel
    /\ visible.console
    /\ splitters[1].length = 200
    /\ splitters[2].length = 200

\* C10 (as claimed): from the scenario, toggling the panel invisible makes the
\* viewer 1000 wide and the panel splitter's rectangle zero-area.
C10_PanelHiddenZeroArea ==
    [][(PanelScenario /\ ToggleView("panel")) =>
          /\ rects'.viewer.w = 1000
          /\ ZeroArea(splitters'[1].geom)
      ]_vars

\* C10 (amended): from the scenario, toggling the panel invisible makes the
\* viewer 1000 wide and hides the panel splitter, whose rectangle stays the
\* one it had, grabWidth wide and 800 high.
C10_PanelHiddenSplitterHidden ==
    [][(PanelScenario /\ ToggleView("panel")) =>
          /\ rects'.viewer.w = 1000
          /\ ~splitters'[1].shown
          /\ splitters'[1].geom = splitters[1].geom
          /\ splitters'[1].geom.w = splitters[1].grabWidth
          /\ splitters'[1].geom.h = 800
          /\ ~ZeroArea(splitters'[1].geom)
      ]_vars

\* The panel has been toggled invisible from the scenario.
C10_Witness ==
    /\ width = 1000
    /\ height = 800
    /\ ~visible.toolbar
    /\ ~visible.panel
    /\ visible.console
    /\ splitters[1].length = 200
    /\ splitters[2].length = 200
    /\ ~splitters[1].shown
    /\ splitters[1].geom = Rect(795, 0, 10, 800)
    /\ rects.viewer.w = 1000

\* The input of the scenario of C11 to a recompute that an event other than a
\* drag triggers: the size and the visibility the recompute reads, and the
\* splitter lengths it finds.
ScenarioInput ==
    /\ width' = 1000
    /\ height' = 800
    /\ margin_ = 0
    /\ ~visible'.toolbar
    /\ visible'.panel
    /\ visible'.console
    /\ splitters[1].length = 200
    /\ splitters[1].minimumLength = 200
    /\ splitters[2].length = 200
    /\ splitters[2].minimumLength = 50

\* An event that runs updateGeometries_ on the splitter lengths as they are.
Recompute ==
    \/ UpdateGeometries
    \/ \E w \in Widths, h \in Heights : ResizeEvent(w, h)
    \/ \E r \in Satellites : Toggle(r)

\* C11: with container 1000x800, margin 0, toolbar hidden, panel and console
\* visible with splitter lengths 200 (minimum 200 and 50), a recompute assigns
\* viewer (0, 0, 800, 600), panel (800, 0, 200, 800), console (0, 600, 800, 200).
C11_ScenarioRects ==
    [][(ScenarioInput /\ Recompute) =>
          /\ rects'.viewer = Rect(0, 0, 800, 600)
          /\ rects'.panel = Rect(800, 0, 200, 800)
          /\ rects'.console = Rect(0, 600, 800, 200)
      ]_vars

\* A recompute has laid out the scenario of C11.
C11_Witness ==
    /\ width = 1000
    /\ height = 800
    /\ ~visible.toolbar
    /\ visible.panel
    /\ visible.console
    /\ splitters[1].length = 200
    /\ splitters[2].length = 200
    /\ rects.viewer = Rect(0, 0, 800, 600)
    /\ rects.panel = Rect(800, 0, 200, 800)
    /\ rects.console = Rect(0, 600, 800, 200)
    /\ splitters[1].shown
    /\ ~splitters[0].shown

\* The satellite region that splitter i separates from the viewer, and the
\* extent of its rectangle along the splitter's axis.
SatelliteOf(i) == IF i = 0 THEN "toolbar" ELSE IF i = 1 THEN "panel" ELSE "console"
AdjacentExtent(i, r) == IF i = 2 THEN r.console.h ELSE r[SatelliteOf(i)].w

\* A call of one of the four length setters on splitter i.
LengthSetterCall(i) ==
    \/ \E v \in LengthArgs : SetLength(i, v)
    \/ \E v \in LengthArgs : SetMinimumLength(i, v)
    \/ \E v \in LengthArgs : SetMaximumLength(i, v)
    \/ \E r \in RangeArgs : SetLengthRange(i, r[1], r[2])

\* C12: when a length setter changes a splitter's length, the layout has been
\* recomputed by the time the call returns: the adjacent visible satellite's
\* extent along the splitter's axis is the new length.
C12_SetterRecomputes ==
    [][\A i \in SplitterIds :
          (/\ LengthSetterCall(i)
           /\ splitters'[i].length # splitters[i].length
           /\ visible[SatelliteOf(i)]) =>
              AdjacentExtent(i, rects') = splitters'[i].length
      ]_vars

\* C13 (as claimed): each width setter stores max(w, 0) in the field it sets,
\* and the other field is never greater after the call than before it.
C13_OtherFieldOnlyLowered ==
    [][\A i \in SplitterIds, w \in WidthArgs :
          /\ SetGrabWidth(i, w) =>
                /\ splitters'[i].grabWidth = Max2(w, 0)
                /\ splitters'[i].highlightWidth <= splitters[i].highlightWidth
          /\ SetHighlightWidth(i, w) =>
                /\ splitters'[i].highlightWidth = Max2(w, 0)
                /\ splitters'[i].grabWidth <= splitters[i].grabWidth
      ]_vars

\* C13 (amended): each width setter stores max(w, 0) in the field it sets;
\* setGrabWidth lowers highlightWidth to the new grabWidth when it was above
\* it, setHighlightWidth raises grabWidth to the new highlightWidth when it was
\* below it, and otherwise the other field is unchanged.
C13_OtherFieldAdjusted ==
    [][\A i \in SplitterIds, w \in WidthArgs :
          /\ SetGrabWidth(i, w) =>
                /\ splitters'[i].grabWidth = Max2(w, 0)
                /\ splitters'[i].highlightWidth =
                       Min2(splitters[i].highlightWidth, Max2(w, 0))
          /\ SetHighlightWidth(i, w) =>
                /\ splitters'[i].highlightWidth = Max2(w, 0)
                /\ splitters'[i].grabWidth =
                       Max2(splitters[i].grabWidth, Max2(w, 0))
      ]_vars

\* setHighlightWidth has raised one splitter's grabWidth above the constructed
\* one, and setGrabWidth has lowered another's highlightWidth below the
\* constructed one.
C13_Witness ==
    /\ \E i \in SplitterIds :
          splitters[i].highlightWidth = 12 /\ splitters[i].grabWidth = 12
    /\ \E i \in SplitterIds :
          splitters[i].grabWidth = 3 /\ splitters[i].highlightWidth = 3

\* The arguments of the three setMaximumLength calls of updateGeometries_, as
\* its locals x1..x4, y1, y3 give them for splitters sp.
MaximumLengthArgs(sp, w, h, vis, vMin) ==
    LET M == margin_
        m1 == M \div 2
        m2 == M - m1
        x1 == m1
        x4 == w - m2
        y1 == m1
        y3 == h - m2
        x2 == IF vis.toolbar THEN x1 + M + sp[0].length ELSE x1
        x3 == IF vis.panel THEN x4 - (M + sp[1].length) ELSE x4
    IN [i \in SplitterIds |->
           IF i = 0 THEN x3 - x1 - 2 * M - vMin.w
           ELSE IF i = 1 THEN x4 - x2 - 2 * M - vMin.w
           ELSE y3 - y1 - 2 * M - vMin.h]

\* The splitters after n runs of the three setMaximumLength calls of the
\* recompute that size w x h and visibility vis would run in this state.
AfterPasses(n, w, h, vis) ==
    SetMaximumLengths(n, clampVariant, splitters,
                      MaximumLengthArgs(splitters, w, h, vis, vMinSize))

\* C14: in the recompute any container size and visibility would run from a
\* reachable state, a third run of the three setMaximumLength calls changes no
\* length and no maximumLength after the two the code makes, and no run
\* increases a length.
C14_TwoPassesConverge ==
    \A w \in Widths, h \in Heights, vis \in [Satellites -> BOOLEAN] :
        \A i \in SplitterIds :
            /\ AfterPasses(MaximumLengthPasses + 1, w, h, vis)[i].length
                  = AfterPasses(MaximumLengthPasses, w, h, vis)[i].length
            /\ AfterPasses(MaximumLengthPasses + 1, w, h, vis)[i].maximumLength
                  = AfterPasses(MaximumLengthPasses, w, h, vis)[i].maximumLength
            /\ \A n \in 1..MaximumLengthPasses :
                  AfterPasses(n, w, h, vis)[i].length
                      <= AfterPasses(n - 1, w, h, vis)[i].length

\* The length the claim of C15 gives splitter s on a move to coordinate z.
DragTarget(s, z) ==
    LET offset == z - s.zOnPress
    IN IF s.direction \in {"Right", "Bottom"}
       THEN clamp(clampVariant, s.lengthOnPress + offset, s.minimumLength, s.maximumLength)
       ELSE clamp(clampVariant, s.lengthOnPress - offset, s.minimumLength, s.maximumLength)

\* C15: a pointer move on a pressed splitter sets its length to
\* clamp(lengthOnPress + offset) for directions Right and Bottom and to
\* clamp(lengthOnPress - offset) for Left and Top, and the recompute run by the
\* same handler reads that length: the adjacent visible satellite gets it as
\* its extent.
C15_MoveSetsLengthAndRecomputes ==
    [][\A i \in SplitterIds, z \in MoveCoords, bs \in SUBSET Buttons :
          (MouseMove(i, bs, z) /\ splitters[i].isPressed) =>
              /\ splitters'[i].length = DragTarget(splitters[i], z)
              /\ visible[SatelliteOf(i)] =>
                    AdjacentExtent(i, rects') = DragTarget(splitters[i], z)
      ]_vars

\* The toolbar splitter (direction Right), made resizable, is pressed and has
\* been dragged by +300, and the toolbar is as wide as its new length.
C15_Witness ==
    /\ splitters[0].isPressed
    /\ splitters[0].direction = "Right"
    /\ splitters[0].length = splitters[0].lengthOnPress + 300
    /\ rects.toolbar.w = splitters[0].length

\* The interaction state of a splitter, derived from isPressed_ and isHovered_.
InteractionState(s) ==
    IF s.isPressed THEN "Pressed" ELSE IF s.isHovered THEN "Hovered" ELSE "Idle"

\* C16: every splitter starts Idle; enter takes Idle to Hovered and leave
\* Hovered to Idle; a primary press takes Idle or Hovered to Pressed and records
\* the length and the press coordinate; another button's press never enters
\* Pressed; a primary release leaves Pressed for Hovered or Idle according to
\* the hover flag; the state changes on no other event, and a pointer move
\* changes the length only while Pressed.
C16_InteractionStates ==
    /\ \A i \in SplitterIds : InteractionState(splitters[i]) = "Idle"
    /\ [][\A i \in SplitterIds :
            LET before == InteractionState(splitters[i])
                after == InteractionState(splitters'[i])
            IN /\ (HoverEnter(i) /\ before = "Idle") => after = "Hovered"
               /\ (HoverLeave(i) /\ before = "Hovered") => after = "Idle"
               /\ \A z \in PressCoords :
                     (MousePress(i, "Left", z) /\ before # "Pressed") =>
                         /\ after = "Pressed"
                         /\ splitters'[i].lengthOnPress = splitters[i].length
                         /\ splitters'[i].zOnPress = z
               /\ \A z \in PressCoords : MousePress(i, "Right", z) => after = before
               /\ (MouseRelease(i, "Left") /\ before = "Pressed") =>
                     after = (IF splitters[i].isHovered THEN "Hovered" ELSE "Idle")
               /\ after # before =>
                     \/ HoverEnter(i)
                     \/ HoverLeave(i)
                     \/ \E z \in PressCoords : MousePress(i, "Left", z)
                     \/ MouseRelease(i, "Left")
               /\ \A bs \in SUBSET Buttons, z \in MoveCoords :
                     (MouseMove(i, bs, z) /\ splitters'[i].length # splitters[i].length)
                         => before = "Pressed"
        ]_vars

\* The console splitter was entered, pressed and dragged, and is still
\* Pressed with its hover flag set.
C16_Witness ==
    /\ splitters[2].isPressed
    /\ splitters[2].isHovered
    /\ splitters[2].length # splitters[2].lengthOnPress

\* The geometry of a splitter: its lengths, centerline and rectangle.
SplitterGeometry(s) ==
    [length |-> s.length, minimumLength |-> s.minimumLength,
     maximumLength |-> s.maximumLength, cx |-> s.cx, cy |-> s.cy, cl |-> s.cl,
     geom |-> s.geom]

\* A pointer event on splitter i other than a move with the primary button held.
PointerEventWithoutDrag(i) ==
    \/ HoverEnter(i)
    \/ HoverLeave(i)
    \/ \E b \in Buttons, z \in PressCoords : MousePress(i, b, z)
    \/ \E b \in Buttons : MouseRelease(i, b)
    \/ \E bs \in SUBSET Buttons, z \in MoveCoords :
          MouseMove(i, bs, z) /\ "Left" \notin bs

\* C17: enter, leave, press and release events, and moves without the primary
\* button, change no splitter's lengths, centerline or rectangle and no region
\* rectangle.
C17_PointerEventsKeepGeometry ==
    [][(\E i \in SplitterIds : PointerEventWithoutDrag(i)) =>
          /\ rects' = rects
          /\ \A j \in SplitterIds :
                SplitterGeometry(splitters'[j]) = SplitterGeometry(splitters[j])
      ]_vars

\* The panel splitter has been dragged to length 500 and released, and the
\* layout is still the dragged one.
C17_Witness ==
    /\ ~splitters[1].isPressed
    /\ splitters[1].lengthOnPress = PanelLength
    /\ splitters[1].length = 500
    /\ rects.panel.w = 500

\* C18: a splitter that is not resizable has the rectangle (0, 0, 0, 0) in
\* every reachable state, recomputes included, and takes no pointer input; it
\* never enters Pressed, and no pointer event changes its length.
C18_NotResizableIsInert ==
    /\ [](\A i \in SplitterIds :
            ~splitters[i].isResizable =>
                /\ splitters[i].geom = Rect(0, 0, 0, 0)
                /\ ~Hittable(splitters[i]))
    /\ [][\A i \in SplitterIds :
            ~splitters[i].isResizable =>
                /\ ~(~splitters[i].isPressed /\ splitters'[i].isPressed)
                /\ (\E bs \in SUBSET Buttons, z \in MoveCoords : MouseMove(i, bs, z))
                      => splitters'[i].length = splitters[i].length
        ]_vars

\* C19: after every recompute the rectangle of each visible satellite has the
\* current length of its splitter as its extent: toolbar and panel width,
\* console height.
C19_RectsAgreeWithLengths ==
    \A i \in SplitterIds :
        visible[SatelliteOf(i)] => AdjacentExtent(i, rects) = splitters[i].length

\* C20: a pointer move on one splitter, with the recompute it triggers, leaves
\* the lengths of the other two splitters as they were.
C20_DragKeepsOtherLengths ==
    [][\A i \in SplitterIds, bs \in SUBSET Buttons, z \in MoveCoords :
          MouseMove(i, bs, z) =>
              \A j \in SplitterIds \ {i} : splitters'[j].length = splitters[j].length
      ]_vars

\* The console splitter is being dragged and has a new length, which the
\* console rectangle shows; the panel and toolbar lengths are the constructed
\* ones.
C20_Witness ==
    /\ splitters[2].isPressed
    /\ splitters[2].length # splitters[2].lengthOnPress
    /\ splitters[1].length = 200
    /\ splitters[0].length = 68
    /\ rects.console.h = splitters[2].length
    /\ rects.panel.w = 200

====
